---- MODULE Spec2Model ----
(***************************************************************************)
(* The prep command of pushkin-cli (src/commands/prep/index.js): cleanup   *)
(* of the previously linked experiments, concurrent packaging of every     *)
(* experiment's API controllers, web page and worker image, the linking    *)
(* (commit) of the results into controllers.json, experiments.js and       *)
(* docker-compose.dev.yml, and the two core rebuilds.                      *)
(*                                                                         *)
(* JavaScript runs one handler at a time.  The synchronous start of prep   *)
(* (cleanUpSync, then the expDirs.forEach loop) is split into steps that   *)
(* follow each other under pc; every asynchronous callback is one action   *)
(* and is enabled only once that synchronous part has returned             *)
(* (pc = "idle").  An exception thrown inside an asynchronous callback is  *)
(* caught by nobody in this file: it ends the process (crashed).           *)
(*                                                                         *)
(* child_process.execSync(command[, options]) returns the command's output *)
(* or throws, and takes no callback.  The source hands it a function as    *)
(* third argument in three places (lines 35, 258, 270) and puts the rest   *)
(* of the work inside that function.  syncCb says, for a whole run,        *)
(* whether such a function is run when the command has succeeded (what     *)
(* the source is written for) or ignored (what Node does); both are        *)
(* explored.                                                               *)
(***************************************************************************)
EXTENDS Integers, Sequences, FiniteSets, TLC

\* ---------------------------------------------------------------- bounds
MaxPlugins == 2      \* entries of experimentsDir
MaxContr == 1        \* apiControllers of one experiment's config.yaml
MaxOld == 1          \* entries left in controllers.json / experiments.js
MaxTemp == 1         \* stale files in each tempPackages directory
MaxServices == 4     \* services of docker-compose.dev.yml before the run
MaxRuns == 2         \* invocations in a row: cleanUpSync (SpecCleanup), prep (SpecPack)

\* ----------------------------------------------------------------- names
\* A module, image or service name is a pair <<p, r>>.  p = 0: a name that
\* existed before the run.  p >= 1: the name uuid() produced for the
\* component of experiment p: r = WorkerRole its worker (line 193), r = WebRole its
\* web page, r >= 1 its r-th API controller (line 25).  uuid() never returns
\* the same value twice, so the call site identifies the value.
WebRole == 0
WorkerRole == -1
Plugins == 1..MaxPlugins
Packers == Plugins \X (WebRole..MaxContr)
Old(i) == <<0, i>>
WorkerName(p) == <<p, WorkerRole>>

Docs == {"controllers", "modules", "compose"}
CleanSteps == {"controllers", "modules", "temp", "workers"}

VARIABLES
  syncCb,            \* does execSync run a function passed as third argument
  pc,                \* position of the synchronous start of prep
  crashed,           \* an exception left an asynchronous callback
  runs,              \* invocations of cleanUpSync (of prep) so far
  ranClean,          \* how often each step of cleanUpSync has run to its end
  docBad,            \* the registry documents that cannot be read or parsed
  controllersJson,   \* api/src/controllers.json: list of {name, mountPath}
  experimentsJs,     \* front-end/src/experiments.js: list of lines
  compose,           \* docker-compose.dev.yml: services, name -> kind
  apiTemp, webTemp,  \* files of api/tempPackages, front-end/tempPackages
  stuck,             \* the files of the two directories that cannot be deleted
  apiModules, webModules, \* modules installed in api, front-end
  compose0, first,   \* history: compose at start; documents after the previous run
  expDirs, dirIdx,   \* fs.readdirSync(experimentsDir) and the forEach position
  tasks,             \* tasks.length of prep
  ptasks,            \* tasks.length of each prepApi
  contrListAppendix, \* contrListAppendix of each prepApi
  pst, manifest, bak,\* per packAndInstall: pending step, package.json, package.json.bak
  pre,               \* per packAndInstall: package.json as the call found it
  wst,               \* per prepWorker: state of docker build
  newApiControllers, newWebPageIncludes, newWorkerServices,
  link,              \* linking: none, ctrlWrite (writeFile pending), ctrlThrew, linked, failed
  linkStarts,        \* how often finishTask found tasks.length == 0
  apiOk,             \* per prepApi: how often it called back with its list
  composeWrite, pendingCompose, \* fs.writeFile of the compose file (line 251)
  apiBuild, webBuild,\* the two core rebuilds
  prepping,          \* var prepping (line 256)
  errCalls, okCalls  \* calls of prep's callback with / without an error

vars == <<syncCb, pc, crashed, runs, ranClean, docBad, controllersJson, experimentsJs,
          compose, apiTemp, webTemp, stuck, apiModules, webModules, compose0, first, expDirs,
          dirIdx, tasks, ptasks, contrListAppendix, pst, manifest, bak, pre, wst,
          newApiControllers, newWebPageIncludes, newWorkerServices, link, linkStarts,
          apiOk, composeWrite, pendingCompose, apiBuild, webBuild, prepping,
          errCalls, okCalls>>

cleanVars == <<docBad, controllersJson, experimentsJs, compose, apiTemp, webTemp,
               apiModules, webModules, ranClean>>
packVars == <<pst, manifest, bak, pre>>
fanVars == <<tasks, ptasks, contrListAppendix, newApiControllers, newWebPageIncludes,
             newWorkerServices, link, linkStarts, apiOk>>
buildVars == <<composeWrite, pendingCompose, apiBuild, webBuild, prepping>>
inputVars == <<syncCb, compose0, expDirs, stuck>>

\* ------------------------------------------------- the registry documents
\* experiments.js is a list of lines: "import <mod> from '<mod>';", the opening
\* "export default [", one "\t{ ..., module: <mod>, ... }," per page, and "];".
ImportLine(m) == [kind |-> "import", mod |-> m]
EntryLine(m) == [kind |-> "entry", mod |-> m]
HeadLine == [kind |-> "head", mod |-> Old(0)]
TailLine == [kind |-> "tail", mod |-> Old(0)]
EmptyModuleList == <<HeadLine, TailLine>>
ContrEntry(n) == [name |-> n, mountPath |-> n]

RECURSIVE ModulesOf(_)
ModulesOf(lines) ==
  IF lines = <<>> THEN <<>>
  ELSE IF Head(lines).kind = "import"
       THEN <<Head(lines).mod>> \o ModulesOf(Tail(lines))
       ELSE ModulesOf(Tail(lines))

\* getModuleList: the second word of every line whose first word is import.
getModuleList(file) == ModulesOf(file)

\* Variant: the closing line of the file is kept.
includeInModuleListKeepsEnd(importName, listAppendix, file) ==
  <<ImportLine(importName)>> \o file \o <<listAppendix, TailLine>>

\* includeInModuleList: drop the last line, put the import first, append the
\* list entry and "];".
includeInModuleList(importName, listAppendix, file) ==
  LET allButEnd == IF Len(file) = 0 THEN <<>> ELSE SubSeq(file, 1, Len(file) - 1)
  IN  <<ImportLine(importName)>> \o allButEnd \o <<listAppendix, TailLine>>

Range(f) == {f[i] : i \in DOMAIN f}

\* A service is managed when labels && labels.isPushkinWorker (line 136):
\* "plain" has no labels, "labelled" has labels without the marker.
Kinds == {"plain", "labelled", "managed"}
Managed(kind) == kind = "managed"
Restrict(f, S) == [x \in S |-> f[x]]

\* fs.readdirSync lists a directory in name order.
Before(m, n) == m[1] < n[1] \/ (m[1] = n[1] /\ m[2] < n[2])

\* What a forEach of unlinkSync over dir leaves when it stops at the first
\* file that cannot be deleted: that file and every file after it.
NotDeleted(dir, bad) == {n \in dir : \E b \in dir \cap bad : b = n \/ Before(b, n)}

\* ------------------------------------------------------------ cleanUpSync
\* Line 293 follows the cleanup: the forEach over expDirs, which returns at
\* once when the directory is empty.
AfterCleanUp == IF dirIdx > Len(expDirs) THEN "idle" ELSE "enumerate"

\* Variant: the catch at line 292 reports and falls through to line 293.
CleanUpThrowsNoReturn ==
  /\ errCalls' = errCalls + 1
  /\ pc' = AfterCleanUp

\* An exception of cleanUpSync is caught at line 292: fail(...), then return.
CleanUpThrows ==
  /\ errCalls' = errCalls + 1
  /\ pc' = "aborted"

Ran(step) == ranClean' = [ranClean EXCEPT ![step] = @ + 1]

\* Variant: the catch at line 128 returns from cleanUpSync.
NextStepLeavesAtCatch(step) ==
  CASE step = "controllers" -> "cleanWeb"
    [] step = "modules" -> "cleanTemp"
    [] step = "temp" -> AfterCleanUp
    [] step = "workers" -> AfterCleanUp

\* The statements of cleanUpSync follow each other; line 293 follows the call.
NextStep(step) ==
  CASE step = "controllers" -> "cleanWeb"
    [] step = "modules" -> "cleanTemp"
    [] step = "temp" -> "cleanWorkers"
    [] step = "workers" -> AfterCleanUp

\* Variant: line 103 writes a text JSON.parse rejects (an empty file).
ResetControllersUnparsable == {"controllers"}

\* JSON.stringify([]) (line 103) parses again: the rewritten controllers.json
\* is not among the unreadable documents.
ResetControllers == {}

\* lines 94-103: uninstall every listed controller module (a failing uninstall
\* is logged and skipped), then write the empty list.  docBad' tells whether
\* what was written can be parsed again.
CleanControllers ==
  /\ pc = "cleanContr"
  /\ IF "controllers" \in docBad
     THEN /\ CleanUpThrows
          /\ UNCHANGED cleanVars
     ELSE /\ \E failed \in SUBSET {e.name : e \in Range(controllersJson)} :
               apiModules' = apiModules \ ({e.name : e \in Range(controllersJson)} \ failed)
          /\ controllersJson' = <<>>
          /\ docBad' = (docBad \ {"controllers"}) \cup ResetControllers
          /\ Ran("controllers")
          /\ pc' = NextStep("controllers")
          /\ UNCHANGED <<errCalls, experimentsJs, compose, apiTemp, webTemp, webModules>>
  /\ UNCHANGED <<inputVars, crashed, runs, first, dirIdx, packVars, wst, fanVars,
                 buildVars, okCalls>>

\* lines 105-113
CleanWebPages ==
  /\ pc = "cleanWeb"
  /\ IF "modules" \in docBad
     THEN /\ CleanUpThrows
          /\ UNCHANGED cleanVars
     ELSE /\ \E failed \in SUBSET Range(getModuleList(experimentsJs)) :
               webModules' = webModules \ (Range(getModuleList(experimentsJs)) \ failed)
          /\ experimentsJs' = EmptyModuleList
          /\ Ran("modules")
          /\ pc' = NextStep("modules")
          /\ UNCHANGED <<errCalls, docBad, controllersJson, compose, apiTemp, webTemp,
                         apiModules>>
  /\ UNCHANGED <<inputVars, crashed, runs, first, dirIdx, packVars, wst, fanVars,
                 buildVars, okCalls>>

\* lines 115-128: one try block around both loops.  The first unlinkSync
\* that throws ends the block: the files before it are gone, every later file
\* of both directories stays.  The directories hold files only (a
\* subdirectory is skipped by the isFile test).
CleanTemp ==
  /\ pc = "cleanTemp"
  /\ apiTemp' = NotDeleted(apiTemp, stuck.api)
  /\ webTemp' = IF apiTemp' # {} THEN webTemp ELSE NotDeleted(webTemp, stuck.web)
  /\ Ran("temp")
  /\ pc' = NextStep("temp")
  /\ UNCHANGED <<errCalls, docBad, controllersJson, experimentsJs, compose,
                 apiModules, webModules>>
  /\ UNCHANGED <<inputVars, crashed, runs, first, dirIdx, packVars, wst, fanVars,
                 buildVars, okCalls>>

\* Variant: line 136 tests serviceContent.labels alone.
RemovedAllLabelled(services) == {s \in DOMAIN services : services[s] # "plain"}

\* The services cleanUpSync deletes from the compose file (lines 134-138).
Removed(services) == {s \in DOMAIN services : Managed(services[s])}

\* lines 130-140.  Loading and dumping the YAML keeps the services that stay
\* as they are: the document is modelled by its data.
CleanWorkers ==
  /\ pc = "cleanWorkers"
  /\ IF "compose" \in docBad
     THEN /\ CleanUpThrows
          /\ UNCHANGED cleanVars
     ELSE /\ compose' = Restrict(compose, DOMAIN compose \ Removed(compose))
          /\ Ran("workers")
          /\ pc' = NextStep("workers")
          /\ UNCHANGED <<errCalls, docBad, controllersJson, experimentsJs, apiTemp,
                         webTemp, apiModules, webModules>>
  /\ UNCHANGED <<inputVars, crashed, runs, first, dirIdx, packVars, wst, fanVars,
                 buildVars, okCalls>>

Snapshot == [bad |-> docBad, controllers |-> controllersJson, modules |-> experimentsJs,
             services |-> compose, errors |-> errCalls, completed |-> pc = "idle"]

\* cleanUpSync is called again on what the previous call left (the next prep
\* of the same core directory, before any experiment is prepared).
CleanAgain ==
  /\ pc \in {"idle", "aborted"}
  /\ runs < MaxRuns
  /\ runs' = runs + 1
  /\ first' = Snapshot
  /\ pc' = "cleanContr"
  /\ UNCHANGED <<inputVars, crashed, cleanVars, dirIdx, packVars, wst, fanVars,
                 buildVars, errCalls, okCalls>>


\* ------------------------------------------------------ task management
\* Every asynchronous callback runs after the synchronous start has returned
\* and only while the process lives.
Running == pc = "idle" /\ ~crashed

\* fail (line 213): callback(new Error(...)), with no latch.
fail == errCalls' = errCalls + 1

\* Variant: the test is made before the pop.
AllTasksFinishedButOne(n) == n <= 1

\* tasks.length == 0 (lines 153, 223)
AllTasksFinished(n) == n = 0

\* tasks.pop() on an empty array leaves it empty.
Pop(n) == IF n > 0 THEN n - 1 ELSE 0

\* finishTask of prep (lines 220-227): pop, and with no task left start the
\* linking by fs.writeFile on controllers.json.
finishTask ==
  /\ tasks' = Pop(tasks)
  /\ IF AllTasksFinished(tasks')
     THEN link' = "ctrlWrite" /\ linkStarts' = linkStarts + 1
     ELSE UNCHANGED <<link, linkStarts>>

\* Variant: a failed sub-operation also finishes its task.
SubOpFailedFinishes ==
  /\ fail
  /\ finishTask
  /\ UNCHANGED <<ptasks, contrListAppendix, newApiControllers, newWebPageIncludes,
                 newWorkerServices, apiOk>>

\* "if (err) return fail(...)" of the callbacks prep hands to prepApi, prepWeb
\* and prepWorker (lines 308, 318, 328), and of prepApi's own (line 164): the
\* error goes to prep's callback and no task is popped.
SubOpFailed ==
  /\ fail
  /\ UNCHANGED fanVars

\* ------------------------------------------------- the expDirs.forEach loop
File == [dir |-> FALSE, cfg |-> FALSE, contr |-> 0]
BadCfg == [dir |-> TRUE, cfg |-> FALSE, contr |-> 0]
Exp(n) == [dir |-> TRUE, cfg |-> TRUE, contr |-> n]
Entries == {File, BadCfg} \cup {Exp(n) : n \in 0..MaxContr}

PackersOf(p, e) == {<<p, r>> : r \in WebRole..e.contr}

\* One iteration (lines 295-334).  A file is skipped; a config.yaml that does
\* not load calls fail and returns from the iteration; otherwise three tasks
\* are started and prepApi, prepWeb and prepWorker launched.  Each launched
\* packAndInstall first copies package.json to package.json.bak (lines
\* 14-18); a copy that throws (bf) reports at once, the others go on to
\* fs.readFile.  A package.json that is not there cannot be copied.
PrepExperiment ==
  /\ pc = "enumerate"
  /\ LET p == dirIdx
         e == expDirs[dirIdx]
     IN  IF ~e.dir
         THEN UNCHANGED <<tasks, ptasks, packVars, wst, errCalls>>
         ELSE IF ~e.cfg
         THEN fail /\ UNCHANGED <<tasks, ptasks, packVars, wst>>
         ELSE \E bf \in SUBSET PackersOf(p, e) :
                /\ {c \in PackersOf(p, e) : manifest[c] = "absent"} \subseteq bf
                /\ tasks' = tasks + 3
                /\ ptasks' = [ptasks EXCEPT ![p] = e.contr]
                /\ pst' = [c \in Packers |->
                            IF c \in bf THEN "failed"
                            ELSE IF c \in PackersOf(p, e) THEN "read" ELSE pst[c]]
                /\ bak' = [c \in Packers |->
                            IF c \in PackersOf(p, e) \ bf THEN manifest[c] ELSE bak[c]]
                /\ pre' = [c \in Packers |->
                            IF c \in PackersOf(p, e) THEN manifest[c] ELSE pre[c]]
                /\ wst' = [wst EXCEPT ![p] = "build"]
                /\ errCalls' = errCalls + Cardinality(bf)
                /\ UNCHANGED manifest
  /\ dirIdx' = dirIdx + 1
  /\ pc' = IF dirIdx' > Len(expDirs) THEN "idle" ELSE "enumerate"
  /\ UNCHANGED <<inputVars, crashed, runs, first, cleanVars, contrListAppendix,
                 newApiControllers, newWebPageIncludes, newWorkerServices, link,
                 linkStarts, apiOk, buildVars, okCalls>>

\* ---------------------------------------------------------- packAndInstall
Step(c, s) == pst' = [pst EXCEPT ![c] = s]

\* fail of packAndInstall (line 10) reaches prep's fail through prepApi's
\* callback (lines 164-165, 308-309) or prepWeb's (lines 178-180, 318-319).
PackFailed(c) ==
  /\ Step(c, "failed")
  /\ SubOpFailed

\* lines 20-27: the read's own error is ignored; JSON.parse decides.
ReadDone(c) ==
  /\ Running /\ pst[c] = "read"
  /\ \E ok \in BOOLEAN :
       IF ok /\ manifest[c] # "partial"
       THEN Step(c, "write") /\ UNCHANGED <<fanVars, errCalls>>
       ELSE PackFailed(c)
  /\ UNCHANGED <<inputVars, pc, crashed, runs, first, dirIdx, cleanVars, manifest, bak,
                 pre, wst, buildVars, okCalls>>

\* lines 27-32: a failed write leaves package.json as it was or cut short.
WriteDone(c) ==
  /\ Running /\ pst[c] = "write"
  /\ \/ /\ manifest' = [manifest EXCEPT ![c] = "unique"]
        /\ Step(c, "build")
        /\ UNCHANGED <<fanVars, errCalls>>
     \/ /\ \E m \in {manifest[c], "partial"} : manifest' = [manifest EXCEPT ![c] = m]
        /\ PackFailed(c)
  /\ UNCHANGED <<inputVars, pc, crashed, runs, first, dirIdx, cleanVars, bak, pre, wst,
                 buildVars, okCalls>>

\* lines 32-43: npm run build reports through exec's callback.  npm pack
\* runs under execSync(command, options): a failing command makes execSync
\* throw inside this callback; a function passed as third argument is run only
\* if syncCb, and the rest of packAndInstall is that function.
BuildDone(c) ==
  /\ Running /\ pst[c] = "build"
  /\ \/ PackFailed(c) /\ UNCHANGED crashed
     \/ crashed' = TRUE /\ Step(c, "packThrew") /\ UNCHANGED <<fanVars, errCalls>>
     \/ /\ Step(c, IF syncCb THEN "move" ELSE "dropped")
        /\ UNCHANGED <<crashed, fanVars, errCalls>>
  /\ UNCHANGED <<inputVars, pc, runs, first, dirIdx, cleanVars, manifest, bak, pre, wst,
                 buildVars, okCalls>>

\* lines 43-48: the tarball is renamed into installDir.
MoveDone(c) ==
  /\ Running /\ pst[c] = "move"
  /\ \/ /\ IF c[2] = WebRole
           THEN webTemp' = webTemp \cup {c} /\ UNCHANGED apiTemp
           ELSE apiTemp' = apiTemp \cup {c} /\ UNCHANGED webTemp
        /\ Step(c, "unlink")
        /\ UNCHANGED <<fanVars, errCalls>>
     \/ PackFailed(c) /\ UNCHANGED <<apiTemp, webTemp>>
  /\ UNCHANGED <<inputVars, pc, crashed, runs, first, dirIdx, docBad, controllersJson,
                 experimentsJs, compose, apiModules, webModules, ranClean, manifest, bak,
                 pre, wst, buildVars, okCalls>>

\* lines 48-51
UnlinkDone(c) ==
  /\ Running /\ pst[c] = "unlink"
  /\ \/ /\ manifest' = [manifest EXCEPT ![c] = "absent"]
        /\ Step(c, "restore")
        /\ UNCHANGED <<fanVars, errCalls>>
     \/ PackFailed(c) /\ UNCHANGED manifest
  /\ UNCHANGED <<inputVars, pc, crashed, runs, first, dirIdx, cleanVars, bak, pre, wst,
                 buildVars, okCalls>>

\* callback(undefined, uniqueName) as prepWeb and prep receive it (lines
\* 182-185, 320-322).
WebLoaded(c) ==
  /\ newWebPageIncludes' =
       Append(newWebPageIncludes, [moduleName |-> c, listAppendix |-> EntryLine(c)])
  /\ finishTask
  /\ UNCHANGED <<ptasks, contrListAppendix, newApiControllers, newWorkerServices, apiOk>>

\* callback(undefined, uniqueName) as prepApi receives it (lines 166-168),
\* with prepApi's finishTask (lines 151-156) and prep's callback (310-312).
ControllerLoaded(c) ==
  LET p == c[1] IN
  /\ contrListAppendix' = [contrListAppendix EXCEPT ![p] = Append(@, ContrEntry(c))]
  /\ ptasks' = [ptasks EXCEPT ![p] = Pop(@)]
  /\ IF AllTasksFinished(ptasks'[p])
     THEN /\ apiOk' = [apiOk EXCEPT ![p] = @ + 1]
          /\ newApiControllers' = newApiControllers \o contrListAppendix'[p]
          /\ finishTask
     ELSE UNCHANGED <<apiOk, newApiControllers, tasks, link, linkStarts>>
  /\ UNCHANGED <<newWebPageIncludes, newWorkerServices>>

\* Variant: the backup is copied back rather than renamed.
RestoredByCopy(c) ==
  /\ manifest' = [manifest EXCEPT ![c] = bak[c]]
  /\ UNCHANGED bak

\* fs.rename(packageJsonBackup, packageJsonPath) has succeeded (line 51):
\* package.json has the backup's contents and package.json.bak is gone.
Restored(c) ==
  /\ manifest' = [manifest EXCEPT ![c] = bak[c]]
  /\ bak' = [bak EXCEPT ![c] = "none"]

\* lines 51-55: the failure branch names an undeclared e, a ReferenceError
\* thrown inside the callback: package.json stays deleted, the backup stays.
RestoreDone(c) ==
  /\ Running /\ pst[c] = "restore"
  /\ \/ /\ Restored(c)
        /\ Step(c, "done")
        /\ IF c[2] = WebRole THEN WebLoaded(c) ELSE ControllerLoaded(c)
        /\ UNCHANGED <<crashed, errCalls>>
     \/ /\ crashed' = TRUE
        /\ Step(c, "restoreThrew")
        /\ UNCHANGED <<manifest, bak, fanVars, errCalls>>
  /\ UNCHANGED <<inputVars, pc, runs, first, dirIdx, cleanVars, pre, wst, buildVars,
                 okCalls>>

\* --------------------------------------------------------------- prepWorker
\* lines 196-205 and 327-333: docker build ends; the service carries the
\* label isPushkinWorker.
WorkerBuilt(p) ==
  /\ Running /\ wst[p] = "build"
  /\ \/ /\ wst' = [wst EXCEPT ![p] = "done"]
        /\ newWorkerServices' =
             Append(newWorkerServices,
                    [serviceName |-> WorkerName(p), serviceContent |-> "managed"])
        /\ finishTask
        /\ UNCHANGED <<ptasks, contrListAppendix, newApiControllers, newWebPageIncludes,
                       apiOk, errCalls>>
     \/ /\ wst' = [wst EXCEPT ![p] = "failed"]
        /\ SubOpFailed
  /\ UNCHANGED <<inputVars, pc, crashed, runs, first, dirIdx, cleanVars, packVars,
                 buildVars, okCalls>>


\* ------------------------------------------------------------------ linking
RECURSIVE IncludeAllBackwards(_, _)
\* Variant: the includes are taken from the last to the first.
IncludeAllBackwards(includes, file) ==
  IF includes = <<>> THEN file
  ELSE IncludeAllBackwards(SubSeq(includes, 1, Len(includes) - 1),
                           includeInModuleList(includes[Len(includes)].moduleName,
                                               includes[Len(includes)].listAppendix, file))

RECURSIVE IncludeAll(_, _)
\* newWebPageIncludes.forEach(include => includeInModuleList(...)) (233-236)
IncludeAll(includes, file) ==
  IF includes = <<>> THEN file
  ELSE IncludeAll(Tail(includes),
                  includeInModuleList(Head(includes).moduleName,
                                      Head(includes).listAppendix, file))

\* compFile.services[serviceName] = serviceContent for every new worker
\* service (lines 245-247).
MergeServices(services, new) ==
  LET names == {w.serviceName : w \in Range(new)}
  IN  [n \in DOMAIN services \cup names |->
         IF n \in names
         THEN (CHOOSE w \in Range(new) : w.serviceName = n).serviceContent
         ELSE services[n]]

\* execSync('npm install *', {cwd: tempPackages}, fn) (lines 258, 270): every
\* tarball of the directory is installed; fn, which would start the core's
\* npm run build, is run only if syncCb.
Installed(modules, temp) == modules \cup temp
Rebuild == IF syncCb THEN "running" ELSE "none"

\* The callback of fs.writeFile on controllers.json (lines 227-282), to its
\* end.  In order: a write error reaches "fail(..., e)" with e undeclared (a
\* ReferenceError); the first n web pages are included and the next include
\* throws; the compose file does not load or dump; otherwise the compose
\* write is started and, without waiting for it, the two installs run, each
\* of which may throw.
ControllersWritten ==
  /\ Running /\ link = "ctrlWrite"
  /\ \/ /\ crashed' = TRUE
        /\ link' = "ctrlThrew"
        /\ UNCHANGED <<docBad, controllersJson, experimentsJs, errCalls, buildVars,
                       apiModules, webModules>>
     \/ /\ controllersJson' = newApiControllers
        /\ docBad' = docBad \ {"controllers"}
        /\ \E n \in 0..Len(newWebPageIncludes), loaded \in BOOLEAN :
             /\ experimentsJs' = IncludeAll(SubSeq(newWebPageIncludes, 1, n), experimentsJs)
             /\ IF n < Len(newWebPageIncludes) \/ ~loaded \/ "compose" \in docBad
                THEN /\ n < Len(newWebPageIncludes) \/ ~loaded
                     /\ fail
                     /\ link' = "failed"
                     /\ UNCHANGED <<crashed, buildVars, apiModules, webModules>>
                ELSE /\ link' = "linked"
                     /\ pendingCompose' = MergeServices(compose, newWorkerServices)
                     /\ composeWrite' = "pending"
                     /\ prepping' = 2
                     /\ UNCHANGED errCalls
                     /\ \/ /\ crashed' = TRUE
                           /\ UNCHANGED <<apiModules, webModules, apiBuild, webBuild>>
                        \/ /\ apiModules' = Installed(apiModules, apiTemp)
                           /\ apiBuild' = Rebuild
                           /\ \/ /\ crashed' = TRUE
                                 /\ UNCHANGED <<webModules, webBuild>>
                              \/ /\ webModules' = Installed(webModules, webTemp)
                                 /\ webBuild' = Rebuild
                                 /\ UNCHANGED crashed
  /\ UNCHANGED <<inputVars, pc, runs, first, dirIdx, compose, apiTemp, webTemp, ranClean,
                 packVars, wst, tasks, ptasks, contrListAppendix, newApiControllers,
                 newWebPageIncludes, newWorkerServices, linkStarts, apiOk, okCalls>>

\* The callback of fs.writeFile on the compose file (lines 251-253): its
\* error branch names the undeclared e as well.
ComposeWritten ==
  /\ Running /\ composeWrite = "pending"
  /\ \/ /\ compose' = pendingCompose
        /\ composeWrite' = "done"
        /\ UNCHANGED crashed
     \/ /\ crashed' = TRUE
        /\ composeWrite' = "threw"
        /\ UNCHANGED compose
  /\ UNCHANGED <<inputVars, pc, runs, first, dirIdx, docBad, controllersJson,
                 experimentsJs, apiTemp, webTemp, apiModules, webModules, ranClean,
                 packVars, wst, fanVars, pendingCompose, apiBuild, webBuild, prepping,
                 errCalls, okCalls>>

\* What a finished core build does after "prepping = prepping - 1" (lines
\* 264-267, 276-279): the if governs console.log only, callback() follows.
Prepped(left) == okCalls' = okCalls + 1

\* lines 261-268
ApiBuilt ==
  /\ Running /\ apiBuild = "running"
  /\ \/ /\ apiBuild' = "done"
        /\ prepping' = prepping - 1
        /\ Prepped(prepping')
        /\ UNCHANGED errCalls
     \/ /\ apiBuild' = "failed"
        /\ fail
        /\ UNCHANGED <<prepping, okCalls>>
  /\ UNCHANGED <<inputVars, pc, crashed, runs, first, dirIdx, cleanVars, packVars, wst,
                 fanVars, composeWrite, pendingCompose, webBuild>>

\* lines 273-280
WebBuilt ==
  /\ Running /\ webBuild = "running"
  /\ \/ /\ webBuild' = "done"
        /\ prepping' = prepping - 1
        /\ Prepped(prepping')
        /\ UNCHANGED errCalls
     \/ /\ webBuild' = "failed"
        /\ fail
        /\ UNCHANGED <<prepping, okCalls>>
  /\ UNCHANGED <<inputVars, pc, crashed, runs, first, dirIdx, cleanVars, packVars, wst,
                 fanVars, composeWrite, pendingCompose, apiBuild>>

\* ------------------------------------------------------------ specifications
RECURSIVE SeqsUpTo(_, _)
SeqsUpTo(S, n) ==
  IF n = 0 THEN {<<>>}
  ELSE LET shorter == SeqsUpTo(S, n - 1)
       IN  shorter \cup {Append(q, x) : q \in shorter, x \in S}

OldNames(n) == {Old(i) : i \in 1..n}
OldControllers == {[i \in 1..n |-> ContrEntry(Old(i))] : n \in 0..MaxOld}
OldModuleLists ==
  {[i \in 1..n |-> ImportLine(Old(i))] \o <<HeadLine>>
     \o [i \in 1..n |-> EntryLine(Old(i))] \o <<TailLine>> : n \in 0..MaxOld}
ComposeFiles == UNION {[S -> Kinds] : S \in SUBSET OldNames(MaxServices)}

\* prep has been called and nothing has run yet.
InitRun ==
  /\ errCalls = 0
  /\ okCalls = 0
  /\ pc = "cleanContr"
  /\ dirIdx = 1
  /\ crashed = FALSE
  /\ runs = 1
  /\ ranClean = [s \in CleanSteps |-> 0]
  /\ compose0 = compose
  /\ first = Snapshot
  /\ tasks = 0
  /\ ptasks = [p \in Plugins |-> 0]
  /\ contrListAppendix = [p \in Plugins |-> <<>>]
  /\ pst = [c \in Packers |-> "idle"]
  /\ manifest = [c \in Packers |-> "orig"]
  /\ bak = [c \in Packers |-> "none"]
  /\ pre = [c \in Packers |-> "orig"]
  /\ wst = [p \in Plugins |-> "idle"]
  /\ newApiControllers = <<>>
  /\ newWebPageIncludes = <<>>
  /\ newWorkerServices = <<>>
  /\ link = "none"
  /\ linkStarts = 0
  /\ apiOk = [p \in Plugins |-> 0]
  /\ composeWrite = "none"
  /\ pendingCompose = compose
  /\ apiBuild = "none"
  /\ webBuild = "none"
  /\ prepping = 0

\* A run of prep on a fresh core directory (empty lists, no staged file, one
\* service that is not a worker) with any experiments directory, or on a core
\* directory that holds what an earlier run linked, any of its documents
\* possibly unreadable.
Init ==
  /\ syncCb \in BOOLEAN
  /\ \/ /\ expDirs \in SeqsUpTo(Entries, MaxPlugins)
        /\ docBad = {}
        /\ controllersJson = <<>>
        /\ experimentsJs = EmptyModuleList
        /\ compose = [n \in {Old(2)} |-> "plain"]
        /\ apiTemp = {}
        /\ apiModules = {}
        /\ webModules = {}
     \/ /\ expDirs \in SeqsUpTo(Entries, MaxPlugins - 1)
        /\ docBad \in SUBSET Docs
        /\ controllersJson = <<ContrEntry(Old(1))>>
        /\ experimentsJs = <<ImportLine(Old(1)), HeadLine, EntryLine(Old(1)), TailLine>>
        /\ compose = [n \in OldNames(2) |-> IF n = Old(1) THEN "managed" ELSE "plain"]
        /\ apiTemp = OldNames(MaxTemp)
        /\ apiModules = OldNames(1)
        /\ webModules = OldNames(1)
  /\ webTemp = {}
  /\ stuck \in [api : SUBSET apiTemp, web : {{}}]
  /\ InitRun

Next ==
  \/ CleanControllers
  \/ CleanWebPages
  \/ CleanTemp
  \/ CleanWorkers
  \/ PrepExperiment
  \/ \E c \in Packers : ReadDone(c)
  \/ \E c \in Packers : WriteDone(c)
  \/ \E c \in Packers : BuildDone(c)
  \/ \E c \in Packers : MoveDone(c)
  \/ \E c \in Packers : UnlinkDone(c)
  \/ \E c \in Packers : RestoreDone(c)
  \/ \E p \in Plugins : WorkerBuilt(p)
  \/ ControllersWritten
  \/ ComposeWritten
  \/ ApiBuilt
  \/ WebBuilt

Spec == Init /\ [][Next]_vars

\* cleanUpSync on its own, on any content of the registry documents and of
\* the staging directories, called MaxRuns times in a row.
InitCleanup ==
  /\ syncCb \in BOOLEAN
  /\ expDirs = <<>>
  /\ \/ /\ docBad \in SUBSET Docs
        /\ controllersJson \in OldControllers
        /\ experimentsJs \in OldModuleLists
        /\ apiTemp \in SUBSET OldNames(MaxTemp)
        /\ webTemp \in SUBSET OldNames(MaxTemp)
        /\ compose = [n \in OldNames(2) |-> IF n = Old(1) THEN "managed" ELSE "plain"]
     \/ /\ docBad = {}
        /\ controllersJson = <<>>
        /\ experimentsJs = EmptyModuleList
        /\ apiTemp = {}
        /\ webTemp = {}
        /\ compose \in ComposeFiles
  /\ stuck \in [api : SUBSET apiTemp, web : SUBSET webTemp]
  /\ apiModules = {e.name : e \in Range(controllersJson)}
  /\ webModules = Range(getModuleList(experimentsJs))
  /\ InitRun

NextCleanup ==
  \/ CleanControllers
  \/ CleanWebPages
  \/ CleanTemp
  \/ CleanWorkers
  \/ CleanAgain

SpecCleanup == InitCleanup /\ [][NextCleanup]_vars

\* ===================================================================== claims
InCleanup == pc \in {"cleanContr", "cleanWeb", "cleanTemp", "cleanWorkers"}
PackInFlight(c) == pst[c] \in {"read", "write", "build", "move", "unlink", "restore"}
InFlight == (\E c \in Packers : PackInFlight(c)) \/ (\E p \in Plugins : wst[p] = "build")
AnyLaunched == (\E c \in Packers : pst[c] # "idle") \/ (\E p \in Plugins : wst[p] # "idle")
FailedSubOps ==
  Cardinality({c \in Packers : pst[c] = "failed"})
    + Cardinality({p \in Plugins : wst[p] = "failed"})
Unmanaged0 == {s \in DOMAIN compose0 : compose0[s] # "managed"}
Baseline ==
  /\ controllersJson = <<>>
  /\ experimentsJs = <<HeadLine, TailLine>>
  /\ DOMAIN compose = Unmanaged0
  /\ \A s \in DOMAIN compose : compose[s] = compose0[s]
NothingLinked ==
  /\ linkStarts = 0 /\ link = "none" /\ composeWrite = "none"
  /\ apiBuild = "none" /\ webBuild = "none"
RebuildsTerminated == apiBuild \in {"done", "failed"} /\ webBuild \in {"done", "failed"}

\* ------------------------------------------------------------ repeated runs
\* The process that ran prep has ended: an exception ended it, or nothing it
\* started is pending any more.
ProcessEnded ==
  /\ pc \in {"idle", "aborted"}
  /\ \/ crashed
     \/ /\ ~InFlight
        /\ link # "ctrlWrite" /\ composeWrite # "pending"
        /\ apiBuild # "running" /\ webBuild # "running"

\* prep is called again, by a new process, on the same core and experiments
\* directories: what is on disk stays (the registry documents, the staging
\* directories, the installed modules, every component's package.json and
\* package.json.bak), what prep keeps in memory starts afresh (lines 211-219).
PrepAgain ==
  /\ ProcessEnded
  /\ runs < MaxRuns
  /\ runs' = runs + 1
  /\ first' = Snapshot
  /\ compose0' = compose
  /\ pc' = "cleanContr"
  /\ dirIdx' = 1
  /\ crashed' = FALSE
  /\ errCalls' = 0 /\ okCalls' = 0
  /\ tasks' = 0
  /\ ptasks' = [p \in Plugins |-> 0]
  /\ contrListAppendix' = [p \in Plugins |-> <<>>]
  /\ pst' = [c \in Packers |-> "idle"]
  /\ wst' = [p \in Plugins |-> "idle"]
  /\ newApiControllers' = <<>>
  /\ newWebPageIncludes' = <<>>
  /\ newWorkerServices' = <<>>
  /\ link' = "none" /\ linkStarts' = 0
  /\ apiOk' = [p \in Plugins |-> 0]
  /\ composeWrite' = "none" /\ pendingCompose' = compose
  /\ apiBuild' = "none" /\ webBuild' = "none"
  /\ prepping' = 0
  /\ UNCHANGED <<syncCb, expDirs, stuck, cleanVars, manifest, bak, pre>>

\* Runs of prep, one after the other, on a fresh core directory and one
\* experiment with a web page, a worker and at least one API controller.
InitPack ==
  /\ syncCb \in BOOLEAN
  /\ expDirs \in {<<Exp(n)>> : n \in 1..MaxContr}
  /\ docBad = {}
  /\ controllersJson = <<>>
  /\ experimentsJs = EmptyModuleList
  /\ compose = [n \in {Old(2)} |-> "plain"]
  /\ apiTemp = {}
  /\ webTemp = {}
  /\ stuck = [api |-> {}, web |-> {}]
  /\ apiModules = {}
  /\ webModules = {}
  /\ InitRun

NextPack ==
  \/ Next
  \/ PrepAgain

SpecPack == InitPack /\ [][NextPack]_vars

\* C11: whenever a packAndInstall call has reported success, the component's
\* package.json has the contents the call found, and no package.json.bak is
\* left.
C11_SuccessRestoresManifest ==
  \A c \in Packers : pst[c] = "done" => manifest[c] = pre[c] /\ bak[c] = "none"

C11_Witness ==
  /\ runs = 2
  /\ pst[<<1, 0>>] = "done" /\ pre[<<1, 0>>] = "unique"
  /\ pst[<<1, 1>>] = "done" /\ pre[<<1, 1>>] = "orig"

\* C1: prep's callback is called without an error only after both core
\* rebuilds have ended, and at most once.
C1_SuccessOnlyAfterBothRebuilds ==
  /\ okCalls > 0 => RebuildsTerminated
  /\ okCalls <= 1

\* C2: when two or more sub-operations (controller packaging, web-page
\* packaging, worker build) have failed, prep's callback has been called with
\* an error exactly once.
C2_ErrorExactlyOnce == FailedSubOps >= 2 => errCalls = 1

ConfigFailed == \E p \in 1..(dirIdx - 1) : expDirs[p].dir /\ ~expDirs[p].cfg

\* C3: once the config.yaml of some experiment directory has failed to load,
\* the error is reported and nothing is ever committed to the three registry
\* documents and no rebuild is started.
C3_DescriptorFailureAborts ==
  ConfigFailed => errCalls >= 1 /\ Baseline /\ NothingLinked

ControllersDone(p) == Cardinality({c \in Packers : c[1] = p /\ c[2] >= 1 /\ pst[c] = "done"})
Launched(p) == p < dirIdx /\ expDirs[p].dir /\ expDirs[p].cfg
LaunchedPlugins == {p \in 1..(dirIdx - 1) : Launched(p)}
Completions ==
  Cardinality({p \in LaunchedPlugins : apiOk[p] > 0})
    + Cardinality({p \in LaunchedPlugins : pst[<<p, 0>>] = "done"})
    + Cardinality({p \in LaunchedPlugins : wst[p] = "done"})

\* C4: with no failure, a fan-in over N sub-operations has called its success
\* continuation exactly once as soon as N of them have completed, for every
\* N >= 0: prepApi over the N controllers of an experiment, and prep over the
\* 3 sub-operations of each launched experiment.
C4_FanInFiresAfterNCompletions ==
  /\ \A p \in LaunchedPlugins :
       (errCalls = 0 /\ ControllersDone(p) = expDirs[p].contr) => apiOk[p] = 1
  /\ (pc = "idle" /\ errCalls = 0 /\ Completions = 3 * Cardinality(LaunchedPlugins))
       => linkStarts = 1

\* C5: once a packaging or worker-build sub-operation has failed, linking
\* never starts: the registry documents stay as cleanup left them and no
\* rebuild is launched, whatever completes afterwards.
C5_FailureDisablesSuccess == FailedSubOps >= 1 => Baseline /\ NothingLinked

C5_Witness ==
  \E p \in Plugins :
    /\ wst[p] = "failed"
    /\ pst[<<p, 0>>] = "done" /\ pst[<<p, 1>>] = "done"
    /\ ~InFlight

\* C6: cleanup runs once, and each of its four steps has run to its end
\* before any packaging or worker build is started; no step of it runs later.
C6_CleanupOnceBeforePackaging ==
  /\ runs = 1
  /\ \A s \in {"controllers", "modules", "temp", "workers"} : ranClean[s] <= 1
  /\ AnyLaunched =>
       /\ ~InCleanup
       /\ \A s \in {"controllers", "modules", "temp", "workers"} : ranClean[s] = 1

C6_Witness ==
  /\ InFlight
  /\ \E s \in DOMAIN compose0 : compose0[s] = "managed"
  /\ apiTemp = {}

\* C7 as stated: while a sub-operation is in flight, no step changes
\* controllers.json, experiments.js, the compose file or either tempPackages
\* directory.
C7_SharedUntouchedInFlight ==
  [][InFlight => UNCHANGED <<controllersJson, experimentsJs, compose, apiTemp, webTemp>>]_vars

\* C7 amended: while a sub-operation is in flight, no step changes
\* controllers.json, experiments.js or the compose file, and a tempPackages
\* directory changes only by a packaging sub-operation renaming its own
\* tarball into it.
C7_RegistriesUntouchedInFlight ==
  [][InFlight =>
       /\ UNCHANGED <<controllersJson, experimentsJs, compose>>
       /\ apiTemp \subseteq apiTemp' /\ webTemp \subseteq webTemp'
       /\ (apiTemp' \ apiTemp) \cup (webTemp' \ webTemp)
            \subseteq {c \in Packers : pst[c] = "move" /\ pst'[c] = "unlink"}]_vars

C7_Witness == InFlight /\ \E c \in Packers : c \in apiTemp \cup webTemp

\* C8: cleanup removes from the compose file exactly the services labelled
\* isPushkinWorker and leaves every other service as it was.
C8_CleanupRemovesExactlyManaged ==
  ranClean["workers"] >= 1 =>
    /\ DOMAIN compose = Unmanaged0
    /\ \A s \in DOMAIN compose : compose[s] = compose0[s]

C8_Witness ==
  /\ ranClean["workers"] >= 1
  /\ Cardinality(DOMAIN compose0 \ Unmanaged0) = 3
  /\ Cardinality(Unmanaged0) = 1
  /\ Cardinality(DOMAIN compose) = 1

\* C9: a second cleanup right after a first leaves the three registry
\* documents as the first left them; after a first cleanup that ran to its
\* end these are the empty lists and the services that are not workers, and
\* the second cleanup raises no error.
C9_CleanupIdempotent ==
  (runs >= 2 /\ pc \in {"idle", "aborted"}) =>
    /\ docBad = first.bad
    /\ controllersJson = first.controllers
    /\ experimentsJs = first.modules
    /\ compose = first.services
    /\ first.completed => pc = "idle" /\ errCalls = first.errors /\ Baseline

C9_Witness ==
  /\ runs = 2 /\ pc = "idle" /\ first.completed
  /\ ranClean["workers"] = 2
  /\ DOMAIN compose0 # Unmanaged0 /\ Unmanaged0 # {}

\* C10: when cleanup meets a registry document it cannot read or parse, prep's
\* callback gets exactly one error and the run ends there: no experiment
\* directory is looked at, nothing is packaged, built, linked or rebuilt.
C10_CleanupFailureAborts ==
  (docBad # {} /\ ~InCleanup) =>
    /\ pc = "aborted"
    /\ errCalls = 1 /\ okCalls = 0
    /\ dirIdx = 1 /\ tasks = 0
    /\ ~AnyLaunched
    /\ NothingLinked

C10_Witness == pc = "aborted" /\ errCalls = 1 /\ Len(expDirs) >= 1

\* The run's result as the completions built it.
DoneControllers == {c \in Packers : c[2] >= 1 /\ pst[c] = "done"}
DoneWebPages == {c \in Packers : c[2] = WebRole /\ pst[c] = "done"}
BuiltWorkers == {WorkerName(p) : p \in {q \in Plugins : wst[q] = "done"}}
LinesOfKind(file, k) == {i \in DOMAIN file : file[i].kind = k}
Committed == link = "linked" /\ composeWrite = "done"

\* C12: when the linking has written its three documents for a result of K
\* controllers, M web pages and P worker services, controllers.json lists
\* exactly the K controllers, experiments.js has exactly M import lines and M
\* list entries between one opening and one closing line, and the compose file
\* has exactly P labelled worker services besides every service that was not a
\* worker before the run, each of those unchanged.
C12_CommitWritesExactlyTheResult ==
  Committed =>
    /\ Len(controllersJson) = Cardinality(DoneControllers)
    /\ {e.name : e \in Range(controllersJson)} = DoneControllers
    /\ Cardinality(LinesOfKind(experimentsJs, "import")) = Cardinality(DoneWebPages)
    /\ Cardinality(LinesOfKind(experimentsJs, "entry")) = Cardinality(DoneWebPages)
    /\ {experimentsJs[i].mod : i \in LinesOfKind(experimentsJs, "entry")} = DoneWebPages
    /\ Len(experimentsJs) = 2 * Cardinality(DoneWebPages) + 2
    /\ experimentsJs[Len(experimentsJs)].kind = "tail"
    /\ DOMAIN compose \ Unmanaged0 = BuiltWorkers
    /\ Len(newWorkerServices) = Cardinality(BuiltWorkers)
    /\ \A s \in BuiltWorkers : compose[s] = "managed"
    /\ \A s \in Unmanaged0 : s \in DOMAIN compose /\ compose[s] = compose0[s]

C12_Witness ==
  /\ Committed
  /\ Len(controllersJson) = 2
  /\ Cardinality(DoneWebPages) = 2
  /\ Cardinality(BuiltWorkers) = 2

CfgErrors == Cardinality({p \in 1..(dirIdx - 1) : expDirs[p].dir /\ ~expDirs[p].cfg})
NoRebuild == apiBuild = "none" /\ webBuild = "none"

\* C13: when one of the linking's writes fails (controllers.json, then
\* experiments.js, then the compose file), the writes after it are not made
\* and prep's callback is called with that error, once.
C13_CommitWriteFailureFatal ==
  /\ link = "ctrlThrew" =>
       /\ errCalls = CfgErrors + 1
       /\ experimentsJs = <<HeadLine, TailLine>> /\ composeWrite = "none"
  /\ link = "failed" =>
       /\ errCalls = CfgErrors + 1
       /\ composeWrite = "none"
  /\ composeWrite = "threw" => errCalls = CfgErrors + 1

\* C14: a core rebuild is launched only after the three documents of the
\* linking have been written: whenever a rebuild has been launched, the write
\* of the compose file has completed without error.
C14_RebuildsAfterCommit == NoRebuild \/ composeWrite = "done"

\* A run of prep on a fresh core directory and at least one experiment, each
\* with a loadable config.yaml, at least one API controller, a web page and a
\* worker.  Every callback that is pending is run in the end.
InitLive ==
  /\ syncCb \in BOOLEAN
  /\ expDirs \in SeqsUpTo({Exp(n) : n \in 1..MaxContr}, MaxPlugins) \ {<<>>}
  /\ docBad = {}
  /\ controllersJson = <<>>
  /\ experimentsJs = EmptyModuleList
  /\ compose = [n \in {Old(2)} |-> "plain"]
  /\ apiTemp = {}
  /\ webTemp = {}
  /\ stuck = [api |-> {}, web |-> {}]
  /\ apiModules = {}
  /\ webModules = {}
  /\ InitRun

SpecLive == InitLive /\ [][Next]_vars /\ WF_vars(Next)

SomethingFailed == errCalls > 0 \/ crashed

\* C15: a run in which nothing fails ends: both core rebuilds are run to
\* their end and prep's callback is called without an error.
C15_SuccessfulRunTerminates ==
  <>(SomethingFailed \/ (okCalls >= 1 /\ apiBuild = "done" /\ webBuild = "done"))

\* The steps of one packAndInstall call, each named by what is pending: the
\* backup copy made ("read"), package.json parsed and its rewrite started
\* ("write"), npm run build started ("build"), built, packed and the move
\* started ("move"), the unlink started ("unlink"), the restoring rename
\* started ("restore"), success reported ("done").
StepOrder ==
  {<<"idle", "read">>, <<"read", "write">>, <<"write", "build">>, <<"build", "move">>,
   <<"move", "unlink">>, <<"unlink", "restore">>, <<"restore", "done">>}

\* C16: a packAndInstall call goes through its steps in order, one after the
\* other has succeeded, and a step that fails ends the call with that error
\* handed to its callback (which hands it to prep's callback).
C16_PackStepsInOrder ==
  [][\A c \in Packers :
       pst'[c] # pst[c] =>
         \/ <<pst[c], pst'[c]>> \in StepOrder
         \/ pst'[c] = "failed" /\ errCalls' > errCalls]_vars

\* C17: when the rename of package.json.bak back to package.json fails, the
\* call hands an error to its callback, and the error reaches prep's callback
\* like that of any other failed sub-operation.
C17_RestoreFailureReported ==
  \A c \in Packers :
    pst[c] = "restoreThrew" => ~crashed /\ errCalls > FailedSubOps + CfgErrors

\* C18: a stale file that cannot be deleted is skipped and nothing else is:
\* once the removal of the staged files has run, the only files left in the
\* two tempPackages directories are those that could not be deleted, and the
\* two lists before it have been emptied whichever uninstall failed.
C18_FailedDeletionSkipsOnlyItself ==
  ranClean["temp"] = runs =>
    /\ apiTemp \subseteq stuck.api
    /\ webTemp \subseteq stuck.web
    /\ controllersJson = <<>> /\ experimentsJs = <<HeadLine, TailLine>>

\* The experiment (position in expDirs) a committed name belongs to.
PluginOf(name) == name[1]
EntriesOf(file) == SubSeq(file, Len(file) - Cardinality(LinesOfKind(file, "entry")),
                          Len(file) - 1)

\* C19 as stated: what the linking wrote is in the order of expDirs, in
\* controllers.json, in the list of experiments.js and in the worker services
\* added to the compose file (added in the order of newWorkerServices).
C19_CommittedInDiscoveryOrder ==
  Committed =>
    /\ \A i, j \in DOMAIN controllersJson :
         i < j => PluginOf(controllersJson[i].name) <= PluginOf(controllersJson[j].name)
    /\ \A i, j \in DOMAIN EntriesOf(experimentsJs) :
         i < j => PluginOf(EntriesOf(experimentsJs)[i].mod)
                    <= PluginOf(EntriesOf(experimentsJs)[j].mod)
    /\ \A i, j \in DOMAIN newWorkerServices :
         i < j => PluginOf(newWorkerServices[i].serviceName)
                    <= PluginOf(newWorkerServices[j].serviceName)

\* C19 amended: what the linking wrote is in the order in which the
\* sub-operations called back: controllers.json is the list prep appended to
\* as each prepApi finished, the list entries of experiments.js follow the
\* order in which the web pages finished and its import lines the reverse of
\* it, and every component that finished is there exactly once.
C19_CommittedInCompletionOrder ==
  Committed =>
    /\ controllersJson = newApiControllers
    /\ Len(controllersJson) = Cardinality(DoneControllers)
    /\ {e.name : e \in Range(controllersJson)} = DoneControllers
    /\ Len(newWebPageIncludes) = Cardinality(DoneWebPages)
    /\ Len(experimentsJs) = 2 * Len(newWebPageIncludes) + 2
    /\ \A i \in DOMAIN newWebPageIncludes :
         /\ EntriesOf(experimentsJs)[i] = newWebPageIncludes[i].listAppendix
         /\ experimentsJs[Len(newWebPageIncludes) + 1 - i].kind = "import"
         /\ experimentsJs[Len(newWebPageIncludes) + 1 - i].mod
              = newWebPageIncludes[i].moduleName
    /\ {newWebPageIncludes[i].moduleName : i \in DOMAIN newWebPageIncludes} = DoneWebPages

C19_Witness ==
  /\ Committed
  /\ Len(controllersJson) = 2
  /\ PluginOf(controllersJson[1].name) = 2 /\ PluginOf(controllersJson[2].name) = 1
  /\ Len(newWebPageIncludes) = 2
  /\ PluginOf(EntriesOf(experimentsJs)[1].mod) = 1

\* C20: over repeated packAndInstall calls on a component's directory,
\* package.json.bak, whenever it exists, holds the component's original
\* package.json, and a call that reports success leaves the original
\* package.json.
C20_BackupHoldsOriginal ==
  \A c \in Packers :
    /\ bak[c] # "none" => bak[c] = "orig"
    /\ pst[c] = "done" => manifest[c] = "orig"

====
